---------------------------- MODULE Spec2Model ----------------------------
(***************************************************************************)
(* Chronologicon engine: the temporal analytics over the HistoricalEvents  *)
(* table (gap finder, windowed largest-gap query, precedence-graph BFS,    *)
(* gap statistics).  Instants are integers counted in units of             *)
(* 1/UnitsPerMin minute, so that the rounding to whole minutes done by the *)
(* handlers is visible.                                                    *)
(***************************************************************************)
EXTENDS Integers, Sequences, FiniteSets, TLC

\* store: the HistoricalEvents table; resp: the request being answered;
\* jobs: the ingestionJobs Map; creations: the promises of the calls
\* eventCollection.addEvent(event) that processFileAsync made, each pending
\* or settled.
VARIABLES store, resp, jobs, creations

vars == <<store, resp, jobs, creations>>

(***************************************************************************)
(* Bounds and program constants                                            *)
(***************************************************************************)
EventIds == {1, 2, 3}

MaxTime == 9

MaxDuration == 3

MaxProbeMinutes == 482

UnitsPerMin == 3

MediumFrom == 30

HighFrom == 120

CriticalFrom == 480

SignificantMinutes == 1

Times == 0..MaxTime

NoEvent == 0

NoTime == -1

MinGapInputs == {-2, -1, 0, 1}

SeverityInputs == {"", "low", "critical"}

LimitInputs == {0, 1}

(***************************************************************************)
(* Helpers on sequences and numbers                                        *)
(***************************************************************************)
Range(s) == {s[i] : i \in 1..Len(s)}

Injective(s) == \A i, j \in 1..Len(s) : s[i] = s[j] => i = j

Max2(a, b) == IF a >= b THEN a ELSE b

Min2(a, b) == IF a <= b THEN a ELSE b

RECURSIVE SumSeq(_)
SumSeq(s) == IF s = <<>> THEN 0 ELSE Head(s) + SumSeq(Tail(s))

\* Math.round(ms / (1000 * 60)): nearest minute, halves towards +infinity.
RoundMinutes(units) == (2 * units + UnitsPerMin) \div (2 * UnitsPerMin)

\* parseInt of the numeric string minutes: truncation towards zero.
ParseIntMinutes(units) ==
  IF units >= 0 THEN units \div UnitsPerMin ELSE -((-units) \div UnitsPerMin)

(***************************************************************************)
(* The HistoricalEvents table                                              *)
(***************************************************************************)
Intervals ==
  {iv \in Times \X Times : iv[2] > iv[1] /\ iv[2] - iv[1] <= MaxDuration}

EventRow(iv) == [start |-> iv[1], end |-> iv[2], parentId |-> NoEvent]

\* check_end_after_start: every stored row has end_date > start_date.
CheckEndAfterStart(row) == row.end > row.start

\* check_positive_duration: duration_minutes, the generated INTEGER column
\* (the seconds between the dates over 60, rounded by the cast), is > 0.
CheckPositiveDuration(row) == RoundMinutes(row.end - row.start) > 0

LexLeq(r1, r2) == r1.start < r2.start \/ (r1.start = r2.start /\ r1.end <= r2.end)

\* Tables of up to |EventIds| rows; ids are opaque, so the rows are listed
\* by id in (start, end) order to avoid renamings of the same table.
ValidStores ==
  UNION {
    {st \in [1..n -> {EventRow(iv) : iv \in Intervals}] :
        /\ \A i \in 1..n : CheckEndAfterStart(st[i]) /\ CheckPositiveDuration(st[i])
        /\ \A i \in 1..n, j \in 1..n : i < j => LexLeq(st[i], st[j])}
    : n \in 0..Cardinality(EventIds)}

Start(e) == store[e].start

End(e) == store[e].end

\* Event.findById: the row or null.
FindById(eventId) == IF eventId \in DOMAIN store THEN eventId ELSE NoEvent

\* SELECT * FROM HistoricalEvents ORDER BY start_date ASC: any order of the
\* rows that is ascending in start_date (rows with equal start_date come in
\* an order the database chooses).
GetAllEvents ==
  {s \in [1..Cardinality(DOMAIN store) -> DOMAIN store] :
      /\ Injective(s)
      /\ \A i, j \in 1..Len(s) : i < j => Start(s[i]) <= Start(s[j])}

NoResponse == [op |-> "none", status |-> 0]

\* The client sends one request at a time: a handler runs when no response
\* is outstanding, and the client then takes the response.
Idle == resp = NoResponse

Init ==
  /\ store \in ValidStores
  /\ resp = NoResponse
  /\ jobs = <<>>
  /\ creations = {}


(***************************************************************************)
(* Gap severity: the CASE expression of the gap query and the FILTER       *)
(* clauses of the statistics query, both on gap_minutes (here in units).   *)
(***************************************************************************)
\* Variant: boundaries taken with <=, so that exactly 30 minutes is still low.
SeverityInclusive(gapUnits) ==
  IF gapUnits <= MediumFrom * UnitsPerMin THEN "low"
  ELSE IF gapUnits <= HighFrom * UnitsPerMin THEN "medium"
  ELSE IF gapUnits <= CriticalFrom * UnitsPerMin THEN "high"
  ELSE "critical"

Severity(gapUnits) ==
  IF gapUnits < MediumFrom * UnitsPerMin THEN "low"
  ELSE IF gapUnits < HighFrom * UnitsPerMin THEN "medium"
  ELSE IF gapUnits < CriticalFrom * UnitsPerMin THEN "high"
  ELSE "critical"

CountWhere(rows, P(_)) == Cardinality({i \in 1..Len(rows) : P(rows[i])})

\* gapsQuery of getStatistics over the rows of the "gaps" CTE (NULL rows
\* already removed by WHERE gap_minutes IS NOT NULL).
GapCounters(gapRows) ==
  [totalGaps    |-> CountWhere(gapRows, LAMBDA g : g >= 0),
   criticalGaps |-> CountWhere(gapRows, LAMBDA g : g >= CriticalFrom * UnitsPerMin),
   highGaps     |-> CountWhere(gapRows, LAMBDA g :
                       g >= HighFrom * UnitsPerMin /\ g < CriticalFrom * UnitsPerMin),
   mediumGaps   |-> CountWhere(gapRows, LAMBDA g :
                       g >= MediumFrom * UnitsPerMin /\ g < HighFrom * UnitsPerMin),
   lowGaps      |-> CountWhere(gapRows, LAMBDA g :
                       g >= 0 /\ g < MediumFrom * UnitsPerMin)]

\* LEAD(start_date) OVER (ORDER BY start_date) - end_date, for every row
\* but the last (whose LEAD is NULL).
LeadGapRows(events) ==
  [i \in 1..(IF Len(events) = 0 THEN 0 ELSE Len(events) - 1) |->
      Start(events[i + 1]) - End(events[i])]

\* EventCollection.getStatistics
GetStatistics ==
  /\ Idle
  /\ \E events \in GetAllEvents :
       resp' = [op |-> "getStatistics", status |-> 200,
                gapRows |-> LeadGapRows(events),
                totalEvents |-> Len(events),
                totalDuration |->
                  SumSeq([i \in 1..Len(events) |->
                            (End(events[i]) - Start(events[i])) \div UnitsPerMin]),
                counters |-> GapCounters(LeadGapRows(events))]
  /\ UNCHANGED <<store, jobs, creations>>

(***************************************************************************)
(* EventCollection.findTemporalGaps (global mode) and its controller       *)
(***************************************************************************)
\* JOIN ordered_events next_event ON prev_event.event_id = next_event.event_id
JoinCondition(prevId, nextId) == prevId = nextId

\* EXTRACT(EPOCH FROM (next_event.start_date - prev_event.end_date)) / 60
GapUnits(prevId, nextId) == Start(nextId) - End(prevId)

\* The joined rows passing WHERE ... gap_minutes >= $1.
GapQueryRows(minGapMinutes) ==
  {pr \in (DOMAIN store) \X (DOMAIN store) :
      /\ JoinCondition(pr[1], pr[2])
      /\ GapUnits(pr[1], pr[2]) >= minGapMinutes * UnitsPerMin}

\* ORDER BY gap_minutes DESC: any order of the rows descending in gap_minutes.
OrderedGapRows(minGapMinutes) ==
  LET rows == GapQueryRows(minGapMinutes)
  IN {s \in [1..Cardinality(rows) -> rows] :
        /\ Injective(s)
        /\ \A i, j \in 1..Len(s) : i < j =>
              GapUnits(s[i][1], s[i][2]) >= GapUnits(s[j][1], s[j][2])}

\* The loop over result.rows: both events are fetched with before_event_id.
GapRecord(row) ==
  [beforeEvent |-> FindById(row[1]),
   afterEvent  |-> FindById(row[1]),
   gapMinutes  |-> ParseIntMinutes(GapUnits(row[1], row[2])),
   gapStart    |-> End(row[1]),
   gapEnd      |-> Start(row[2]),
   severity    |-> Severity(GapUnits(row[1], row[2]))]

CollectionFindTemporalGaps(rows) == [i \in 1..Len(rows) |-> GapRecord(rows[i])]

SeverityFilter(gaps, severity) ==
  IF severity = "" THEN gaps
  ELSE SelectSeq(gaps, LAMBDA g : g.severity = severity)

LimitFilter(gaps, limit) ==
  IF limit = 0 THEN gaps ELSE SubSeq(gaps, 1, Min2(limit, Len(gaps)))

\* controller findTemporalGaps(query)
FindTemporalGaps(minGapMinutes, severity, limit) ==
  /\ Idle
  /\ \E rows \in OrderedGapRows(minGapMinutes) :
       LET gaps == LimitFilter(
                     SeverityFilter(CollectionFindTemporalGaps(rows), severity), limit)
       IN resp' = [op |-> "findTemporalGaps", status |-> 200,
                   minGapMinutes |-> minGapMinutes,
                   severity |-> severity, limit |-> limit,
                   gaps |-> gaps,
                   total |-> Len(gaps),
                   summary |->
                     [critical |-> CountWhere(gaps, LAMBDA g : g.severity = "critical"),
                      high     |-> CountWhere(gaps, LAMBDA g : g.severity = "high"),
                      medium   |-> CountWhere(gaps, LAMBDA g : g.severity = "medium"),
                      low      |-> CountWhere(gaps, LAMBDA g : g.severity = "low")]]
  /\ UNCHANGED <<store, jobs, creations>>

(***************************************************************************)
(* GET /api/insights/temporal-gaps: two handlers are registered on the     *)
(* path, in this order.                                                    *)
(***************************************************************************)
\* filteredEvents.sort((a, b) => new Date(a.startDate) - new Date(b.startDate))
\* (Array.prototype.sort is stable).
RECURSIVE SortByStartDate(_)
SortByStartDate(s) ==
  IF s = <<>> THEN <<>>
  ELSE LET rest == SortByStartDate(SubSeq(s, 1, Len(s) - 1))
           x    == s[Len(s)]
           k    == Cardinality({i \in 1..Len(rest) : Start(rest[i]) <= Start(x)})
       IN SubSeq(rest, 1, k) \o <<x>> \o SubSeq(rest, k + 1, Len(rest))

\* Variant: a sort that is not stable, gaps of equal duration come out in
\* the reverse of their order in the input.
RECURSIVE SortByDurationDescUnstable(_)
SortByDurationDescUnstable(s) ==
  IF s = <<>> THEN <<>>
  ELSE LET rest == SortByDurationDescUnstable(SubSeq(s, 1, Len(s) - 1))
           x    == s[Len(s)]
           k    == Cardinality({i \in 1..Len(rest) :
                                   rest[i].durationMinutes > x.durationMinutes})
       IN SubSeq(rest, 1, k) \o <<x>> \o SubSeq(rest, k + 1, Len(rest))

\* gaps.sort((a, b) => b.durationMinutes - a.durationMinutes)
\* (Array.prototype.sort is stable).
RECURSIVE SortByDurationDesc(_)
SortByDurationDesc(s) ==
  IF s = <<>> THEN <<>>
  ELSE LET rest == SortByDurationDesc(SubSeq(s, 1, Len(s) - 1))
           x    == s[Len(s)]
           k    == Cardinality({i \in 1..Len(rest) :
                                   rest[i].durationMinutes >= x.durationMinutes})
       IN SubSeq(rest, 1, k) \o <<x>> \o SubSeq(rest, k + 1, Len(rest))

\* The forEach that keeps the event with the latest end among eventEnd <= start.
RECURSIVE MostRecentBeforeStart(_, _, _)
MostRecentBeforeStart(events, start, best) ==
  IF events = <<>> THEN best
  ELSE LET e == Head(events)
       IN MostRecentBeforeStart(Tail(events), start,
            IF End(e) <= start /\ (best = NoEvent \/ End(e) > End(best))
            THEN e ELSE best)

\* The forEach that keeps the event with the earliest start among eventStart >= end.
RECURSIVE EarliestAfterEnd(_, _, _)
EarliestAfterEnd(events, end, best) ==
  IF events = <<>> THEN best
  ELSE LET e == Head(events)
       IN EarliestAfterEnd(Tail(events), end,
            IF Start(e) >= end /\ (best = NoEvent \/ Start(e) < Start(best))
            THEN e ELSE best)

\* "Get events within the time range" of the first handler.
InRange(e, start, end) == Start(e) >= start /\ End(e) <= end

\* "Check if event overlaps with the specified range" of the second handler.
OverlapsRange(e, start, end) == Start(e) < end /\ End(e) > start

\* The gap object pushed when precedingEnd < succeedingStart.
GapBetween(preceding, succeeding) ==
  IF End(preceding) < Start(succeeding)
  THEN <<[startOfGap      |-> End(preceding),
          endOfGap        |-> Start(succeeding),
          durationMinutes |-> RoundMinutes(Start(succeeding) - End(preceding)),
          precedingEvent  |-> preceding,
          succeedingEvent |-> succeeding]>>
  ELSE <<>>

RECURSIVE AdjacentGaps(_)
AdjacentGaps(chain) ==
  IF Len(chain) < 2 THEN <<>>
  ELSE GapBetween(chain[1], chain[2]) \o AdjacentGaps(Tail(chain))

\* First registered handler: events inside the range, plus the nearest
\* event before and after it; gaps sorted by duration, largest returned.
WindowGapsHandler(events, start, end) ==
  LET before   == MostRecentBeforeStart(events, start, NoEvent)
      after    == EarliestAfterEnd(events, end, NoEvent)
      filtered == SortByStartDate(SelectSeq(events, LAMBDA e : InRange(e, start, end)))
      chain    == IF filtered = <<>> THEN <<>>
                  ELSE (IF before = NoEvent THEN <<>> ELSE <<before>>)
                         \o filtered
                         \o (IF after = NoEvent THEN <<>> ELSE <<after>>)
      gaps     == SortByDurationDesc(AdjacentGaps(chain))
  IN [op |-> "temporalGaps", status |-> 200, handler |-> "window",
      start |-> start, end |-> end, events |-> events,
      mostRecentBeforeStart |-> before, earliestAfterEnd |-> after,
      filteredEvents |-> filtered, chain |-> chain, gaps |-> gaps,
      largestGap |-> IF gaps = <<>> THEN <<>> ELSE <<gaps[1]>>]

\* The loop of the second handler: the running maximum over the gaps of more
\* than one minute, compared before rounding. acc = <<maxGapDuration, largestGap>>.
RECURSIVE LargestSignificantGap(_, _)
LargestSignificantGap(chain, acc) ==
  IF Len(chain) < 2 THEN acc
  ELSE LET gapDuration == Start(chain[2]) - End(chain[1])
       IN LargestSignificantGap(Tail(chain),
            IF gapDuration > SignificantMinutes * UnitsPerMin /\ gapDuration > acc[1]
            THEN <<gapDuration, GapBetween(chain[1], chain[2])>>
            ELSE acc)

\* Second registered handler: events overlapping the range only.
SignificantGapsHandler(events, start, end) ==
  LET filtered == SelectSeq(events, LAMBDA e : OverlapsRange(e, start, end))
      chain    == IF Len(filtered) < 2 THEN <<>> ELSE SortByStartDate(filtered)
      largest  == LargestSignificantGap(chain, <<0, <<>>>>)[2]
  IN [op |-> "temporalGaps", status |-> 200, handler |-> "significant",
      start |-> start, end |-> end, events |-> events,
      mostRecentBeforeStart |-> NoEvent, earliestAfterEnd |-> NoEvent,
      filteredEvents |-> filtered, chain |-> chain, gaps |-> largest,
      largestGap |-> largest]

\* router.get registrations in file order.
TemporalGapsHandlers == <<"window", "significant">>

\* Variant: the later registration answers the path.
ServingHandlerLast == TemporalGapsHandlers[Len(TemporalGapsHandlers)]

\* express runs the first matching handler; it ends the response and does
\* not call next(), so the later registration never runs.
ServingHandler == TemporalGapsHandlers[1]

\* GET /temporal-gaps?startDate=&endDate=
TemporalGaps(start, end) ==
  /\ Idle
  /\ IF start = NoTime \/ end = NoTime
     THEN resp' = [op |-> "temporalGaps", status |-> 400, handler |-> ServingHandler,
                   start |-> start, end |-> end]
     ELSE \E events \in GetAllEvents :
            resp' = IF ServingHandler = "window"
                    THEN WindowGapsHandler(events, start, end)
                    ELSE SignificantGapsHandler(events, start, end)
  /\ UNCHANGED <<store, jobs, creations>>

(***************************************************************************)
(* findShortestPath and GET /api/insights/event-influence-path             *)
(***************************************************************************)
\* Variant: an edge only when event1 ends strictly before event2 starts.
PrecedenceEdgeStrict(event1, event2) ==
  event1 # event2 /\ End(event1) < Start(event2)

\* Variant: the edge points from the later event to the earlier one.
PrecedenceEdgeReversed(event1, event2) ==
  event1 # event2 /\ End(event2) <= Start(event1)

\* Variant: an edge only to an event that starts exactly when event1 ends.
PrecedenceEdgeAdjacent(event1, event2) ==
  event1 # event2 /\ End(event1) = Start(event2)

\* event1.eventId !== event2.eventId and event1End <= event2Start
PrecedenceEdge(event1, event2) ==
  event1 # event2 /\ End(event1) <= Start(event2)

\* graph[event1.eventId]: the neighbours pushed in the order of the snapshot.
BuildGraph(events) ==
  [event1 \in Range(events) |->
     SelectSeq(events, LAMBDA event2 : PrecedenceEdge(event1, event2))]

\* Variant: the queue entry carries the neighbour alone, not the path so far.
ExtendPathDropsPrefix(path, neighborId) == <<neighborId>>

\* path: [...path, neighborId]
ExtendPath(path, neighborId) == Append(path, neighborId)

\* The while loop over the queue; each entry carries the path so far.
RECURSIVE BreadthFirstSearch(_, _, _, _)
BreadthFirstSearch(graph, queue, visited, targetEventId) ==
  IF queue = <<>> THEN <<>>
  ELSE LET eventId == Head(queue).eventId
           path    == Head(queue).path
       IN IF eventId = targetEventId THEN path
          ELSE LET fresh  == SelectSeq(graph[eventId], LAMBDA n : n \notin visited)
                   pushed == [i \in 1..Len(fresh) |->
                                [eventId |-> fresh[i], path |-> ExtendPath(path, fresh[i])]]
               IN BreadthFirstSearch(graph, Tail(queue) \o pushed,
                                     visited \cup Range(fresh), targetEventId)

\* The path of ids turned into path events, each with its own duration.
PathEvents(path) ==
  [i \in 1..Len(path) |->
     [event_id |-> path[i],
      duration_minutes |-> RoundMinutes(End(path[i]) - Start(path[i]))]]

FindShortestPath(events, sourceEventId, targetEventId) ==
  PathEvents(BreadthFirstSearch(BuildGraph(events),
                                <<[eventId |-> sourceEventId, path |-> <<sourceEventId>>]>>,
                                {sourceEventId}, targetEventId))

ElapsedSpanMinutes(shortestPath) ==
  RoundMinutes(End(shortestPath[Len(shortestPath)].event_id)
                 - Start(shortestPath[1].event_id))

\* shortestPath.reduce((total, event) => total + event.duration_minutes, 0)
TotalDurationMinutes(shortestPath) ==
  SumSeq([i \in 1..Len(shortestPath) |-> shortestPath[i].duration_minutes])

\* GET /event-influence-path?sourceEventId=&targetEventId=
EventInfluencePath(sourceEventId, targetEventId) ==
  /\ Idle
  /\ LET head == [op |-> "eventInfluencePath",
                  sourceEventId |-> sourceEventId, targetEventId |-> targetEventId]
     IN IF sourceEventId = NoEvent \/ targetEventId = NoEvent
        THEN resp' = head @@ [status |-> 400, error |-> "parameters required"]
        ELSE IF FindById(sourceEventId) = NoEvent
        THEN resp' = head @@ [status |-> 404, error |-> "Source event not found"]
        ELSE IF FindById(targetEventId) = NoEvent
        THEN resp' = head @@ [status |-> 404, error |-> "Target event not found"]
        ELSE \E events \in GetAllEvents :
               LET shortestPath == FindShortestPath(events, sourceEventId, targetEventId)
               IN resp' = head @@
                    [status |-> 200, events |-> events, graph |-> BuildGraph(events),
                     shortestPath |-> shortestPath,
                     totalDurationMinutes |->
                       IF Len(shortestPath) = 0 THEN 0
                       ELSE TotalDurationMinutes(shortestPath)]
  /\ UNCHANGED <<store, jobs, creations>>

\* Variant: the comparisons taken with <=, so that touching events overlap.
eventsOverlapInclusive(event1, event2) ==
  Start(event1) <= End(event2) /\ End(event1) >= Start(event2)

\* Helper function to check if two events overlap.
eventsOverlap(event1, event2) ==
  Start(event1) < End(event2) /\ End(event1) > Start(event2)

\* Variant: the intersection truncated to whole minutes instead of rounded.
calculateOverlapDurationTruncated(event1, event2) ==
  (Min2(End(event1), End(event2)) - Max2(Start(event1), Start(event2)))
    \div UnitsPerMin

\* Helper function to calculate overlap duration, in minutes.
calculateOverlapDuration(event1, event2) ==
  RoundMinutes(Min2(End(event1), End(event2)) - Max2(Start(event1), Start(event2)))

\* The nested loops over i < j of the filtered events.
OverlappingPairs(filteredEvents) ==
  LET n     == Len(filteredEvents)
      cell  == [k \in 1..(n * n) |->
                  LET i == ((k - 1) \div n) + 1
                      j == ((k - 1) % n) + 1
                  IN IF i < j /\ eventsOverlap(filteredEvents[i], filteredEvents[j])
                     THEN <<[overlappingEventPairs |->
                               <<filteredEvents[i], filteredEvents[j]>>,
                             overlap_duration_minutes |->
                               calculateOverlapDuration(filteredEvents[i], filteredEvents[j])]>>
                     ELSE <<>>]
      RECURSIVE Flatten(_)
      Flatten(k) == IF k > n * n THEN <<>> ELSE cell[k] \o Flatten(k + 1)
  IN Flatten(1)

\* GET /overlapping-events?startDate=&endDate=
OverlappingEvents(start, end) ==
  /\ Idle
  /\ LET head == [op |-> "overlappingEvents", start |-> start, end |-> end]
     IN IF start = NoTime \/ end = NoTime
        THEN resp' = head @@ [status |-> 400, error |-> "parameters required"]
        ELSE \E events \in GetAllEvents :
               LET filteredEvents ==
                     SelectSeq(events, LAMBDA e : OverlapsRange(e, start, end))
               IN resp' = head @@
                    [status |-> 200, events |-> events,
                     filteredEvents |-> filteredEvents,
                     overlappingPairs |-> OverlappingPairs(filteredEvents)]
  /\ UNCHANGED <<store, jobs, creations>>

TakeResponse ==
  /\ ~Idle
  /\ resp' = NoResponse
  /\ UNCHANGED <<store, jobs, creations>>

Next ==
  \/ TakeResponse
  \/ GetStatistics
  \/ \E start \in Times \cup {NoTime}, end \in Times \cup {NoTime} :
       TemporalGaps(start, end)
  \/ \E src \in EventIds \cup {NoEvent}, tgt \in EventIds \cup {NoEvent} :
       EventInfluencePath(src, tgt)
  \/ \E m \in MinGapInputs, sv \in SeverityInputs, l \in LimitInputs :
       FindTemporalGaps(m, sv, l)
  \/ \E start \in Times \cup {NoTime}, end \in Times \cup {NoTime} :
       OverlappingEvents(start, end)

Spec == Init /\ [][Next]_vars

(***************************************************************************)
(* The severity classification on its own: one row of the "gaps" CTE with  *)
(* a gap of up to MaxProbeMinutes, classified by both queries.             *)
(***************************************************************************)
ProbeGaps == (-UnitsPerMin)..(MaxProbeMinutes * UnitsPerMin)

ClassifyGap(gapUnits) ==
  /\ Idle
  /\ resp' = [op |-> "classifyGap", status |-> 200,
              gapUnits |-> gapUnits,
              severity |-> Severity(gapUnits),
              counters |-> GapCounters(<<gapUnits>>)]
  /\ UNCHANGED <<store, jobs, creations>>

InitSeverity ==
  /\ store = <<>>
  /\ resp = NoResponse
  /\ jobs = <<>>
  /\ creations = {}

NextSeverity ==
  \/ TakeResponse
  \/ \E g \in ProbeGaps : ClassifyGap(g)

SpecSeverity == InitSeverity /\ [][NextSeverity]_vars

(***************************************************************************)
(* The hierarchy: parent_event_id links.  fk_parent_event only requires    *)
(* the parent row to exist, so a table may hold an event that is its own   *)
(* parent or a longer cycle of parent links.                               *)
(***************************************************************************)
HierTimes == {0, 2, 4}

\* Tables the schema admits: check_end_after_start and
\* check_positive_duration on every row, and fk_parent_event (the parent is
\* NULL or the id of a row of the table).
HierarchyStores ==
  UNION {
    {st \in [1..n -> [start : HierTimes, end : HierTimes,
                      parentId : (1..n) \cup {NoEvent}]] :
        \A i \in 1..n : CheckEndAfterStart(st[i]) /\ CheckPositiveDuration(st[i])}
    : n \in 0..Cardinality(EventIds)}

ParentId(e) == store[e].parentId

\* SELECT * FROM HistoricalEvents WHERE parent_event_id = $1
\* ORDER BY start_date ASC, the rows taken in the order "events" lists them.
GetChildEvents(events, parentId) ==
  SelectSeq(events, LAMBDA e : ParentId(e) = parentId)

\* Math.round((event.endDate - event.startDate) / (1000 * 60))
DurationMinutes(e) == RoundMinutes(End(e) - Start(e))

InitHierarchy ==
  /\ store \in HierarchyStores
  /\ resp = NoResponse
  /\ jobs = <<>>
  /\ creations = {}

(***************************************************************************)
(* GET /api/influence-spreader: breadth-first search over children and     *)
(* parent, with one visited set for the whole search.                      *)
(***************************************************************************)
\* Variant: the search never goes from an event up to its parent.
ParentNotPushed(eventId, seen) == <<>>

\* "Add parent to queue": the parent, when the event has one, it is stored
\* and it has not been visited.
ParentToPush(eventId, seen) ==
  IF /\ ParentId(eventId) # NoEvent
     /\ FindById(ParentId(eventId)) # NoEvent
     /\ ParentId(eventId) \notin seen
  THEN <<ParentId(eventId)>> ELSE <<>>

RECURSIVE findShortestPath(_, _, _, _)
findShortestPath(events, queue, visited, targetEventId) ==
  IF queue = <<>> THEN <<>>
  ELSE
    LET eventId == Head(queue).eventId
        path    == Head(queue).path
        rest    == Tail(queue)
    IN IF eventId \in visited
       THEN findShortestPath(events, rest, visited, targetEventId)
       ELSE IF FindById(eventId) = NoEvent
       THEN findShortestPath(events, rest, visited \cup {eventId}, targetEventId)
       ELSE
         LET seen        == visited \cup {eventId}
             currentPath == Append(path, [event_id |-> eventId,
                                          duration_minutes |-> DurationMinutes(eventId)])
             children    == SelectSeq(GetChildEvents(events, eventId),
                                      LAMBDA c : c \notin seen)
             parent      == ParentToPush(eventId, seen)
             pushed      == [i \in 1..Len(children \o parent) |->
                               [eventId |-> (children \o parent)[i],
                                path    |-> currentPath]]
         IN IF eventId = targetEventId THEN currentPath
            ELSE findShortestPath(events, rest \o pushed, seen, targetEventId)

\* shortestPath.reduce((total, event) => total + event.duration_minutes, 0)
\* of the hierarchy route.
HierarchyTotalDuration(shortestPath) ==
  SumSeq([i \in 1..Len(shortestPath) |-> shortestPath[i].duration_minutes])

\* GET /api/influence-spreader?sourceEventId=&targetEventId=
InfluenceSpreaderPath(sourceEventId, targetEventId) ==
  /\ Idle
  /\ LET head == [op |-> "hierarchyPath",
                  sourceEventId |-> sourceEventId, targetEventId |-> targetEventId]
     IN IF sourceEventId = NoEvent \/ targetEventId = NoEvent
        THEN resp' = head @@ [status |-> 400, error |-> "parameters required"]
        ELSE IF FindById(sourceEventId) = NoEvent
        THEN resp' = head @@ [status |-> 404, error |-> "Source event not found"]
        ELSE IF FindById(targetEventId) = NoEvent
        THEN resp' = head @@ [status |-> 404, error |-> "Target event not found"]
        ELSE \E events \in GetAllEvents :
               LET shortestPath ==
                     findShortestPath(events,
                                      <<[eventId |-> sourceEventId, path |-> <<>>]>>,
                                      {}, targetEventId)
               IN resp' = head @@
                    [status |-> 200, events |-> events,
                     shortestPath |-> shortestPath,
                     totalDurationMinutes |->
                       IF Len(shortestPath) = 0 THEN 0
                       ELSE HierarchyTotalDuration(shortestPath)]
  /\ UNCHANGED <<store, jobs, creations>>

(***************************************************************************)
(* EventCollection.calculateEventInfluence: the recursive query over       *)
(* event_hierarchy, the influence Map and the running total.  Scores are   *)
(* kept in thousandths: ScoreOne is the score 1 of the source.             *)
(***************************************************************************)
MaxDepthInput == 3

ScoreOne == 1000

DecayTenths == 7

DepthInputs == 0..MaxDepthInput

\* Math.pow(0.7, row.depth)
RECURSIVE Influence(_)
Influence(depth) ==
  IF depth = 0 THEN ScoreOne ELSE (Influence(depth - 1) * DecayTenths) \div 10

NotOnPathUnchecked(e, path) == TRUE

\* WHERE NOT (e.event_id = ANY(eh.path)) -- Avoid cycles
NotOnPath(e, path) == e \notin Range(path)

\* The ON condition of the recursive term.  Both disjuncts select the rows
\* whose parent_event_id is eh.event_id: the second one asks for e.event_id
\* to be among the ids of the rows having that parent.
HierarchyJoin(e, eh, maxDepth) ==
  \/ (ParentId(e) = eh.event_id /\ eh.depth < maxDepth)
  \/ (e \in {c \in DOMAIN store : ParentId(c) = eh.event_id} /\ eh.depth < maxDepth)

\* One evaluation of the recursive term on the working table.
RecursiveTerm(working, maxDepth) ==
  {[event_id |-> p[1], depth |-> p[2].depth + 1, path |-> Append(p[2].path, p[1])] :
     p \in {q \in (DOMAIN store) \X working :
              HierarchyJoin(q[1], q[2], maxDepth) /\ NotOnPath(q[1], q[2].path)}}

\* WITH RECURSIVE ... UNION ALL: the rows of every iteration until the
\* working table is empty.  A row is identified by its path.
RECURSIVE EventHierarchy(_, _)
EventHierarchy(working, maxDepth) ==
  IF working = {} THEN {}
  ELSE working \cup EventHierarchy(RecursiveTerm(working, maxDepth), maxDepth)

\* ORDER BY depth, start_date: by depth, and within a depth in the order
\* "events" (ascending in start_date) lists the events.
RECURSIVE OrderedHierarchyRows(_, _, _, _)
OrderedHierarchyRows(rows, events, depth, maxDepth) ==
  IF depth > maxDepth THEN <<>>
  ELSE
    LET atDepth == {r \in rows : r.depth = depth}
        ids     == SelectSeq(events, LAMBDA e : \E r \in atDepth : r.event_id = e)
        RECURSIVE RowsOf(_)
        RowsOf(i) ==
          IF i > Len(ids) THEN <<>>
          ELSE LET mine == {r \in atDepth : r.event_id = ids[i]}
               IN [k \in 1..Cardinality(mine) |-> [event_id |-> ids[i], depth |-> depth]]
                    \o RowsOf(i + 1)
    IN RowsOf(1) \o OrderedHierarchyRows(rows, events, depth + 1, maxDepth)

\* influenceMap.set(row.event_id, influence): a Map keeps the position of
\* the first insertion of a key and the value of the last one.
MapSet(map, key, value) ==
  IF \E i \in 1..Len(map) : map[i].eventId = key
  THEN [i \in 1..Len(map) |->
          IF map[i].eventId = key THEN [eventId |-> key, influence |-> value]
          ELSE map[i]]
  ELSE Append(map, [eventId |-> key, influence |-> value])

\* The loop over result.rows: the Map and the running total.
RECURSIVE InfluenceLoop(_, _, _)
InfluenceLoop(rows, influenceMap, totalInfluence) ==
  IF rows = <<>>
  THEN [influenceMap |-> influenceMap, totalInfluence |-> totalInfluence]
  ELSE InfluenceLoop(Tail(rows),
                     MapSet(influenceMap, Head(rows).event_id, Influence(Head(rows).depth)),
                     totalInfluence + Influence(Head(rows).depth))

\* result.rows.find(r => r.event_id === eventId): the first row of the id.
FirstRowOf(rows, eventId) ==
  rows[CHOOSE i \in 1..Len(rows) :
         /\ rows[i].event_id = eventId
         /\ \A j \in 1..(i - 1) : rows[j].event_id # eventId]

\* The value calculateEventInfluence returns for an existing event.
InfluenceResult(events, eventId, maxDepth) ==
  LET base   == {[event_id |-> eventId, depth |-> 0, path |-> <<eventId>>]}
      rows   == OrderedHierarchyRows(EventHierarchy(base, maxDepth), events, 0, maxDepth)
      looped == InfluenceLoop(rows, <<>>, 0)
  IN [rows |-> rows,
      influenceMap |->
        [i \in 1..Len(looped.influenceMap) |->
           [eventId   |-> looped.influenceMap[i].eventId,
            influence |-> looped.influenceMap[i].influence,
            event     |-> FirstRowOf(rows, looped.influenceMap[i].eventId)]],
      totalInfluence |-> looped.totalInfluence]

\* calculateEventInfluence(eventId, { maxDepth })
CalculateEventInfluence(eventId, maxDepth) ==
  /\ Idle
  /\ LET head == [op |-> "calculateEventInfluence",
                  eventId |-> eventId, maxDepth |-> maxDepth]
     IN IF FindById(eventId) = NoEvent
        THEN resp' = head @@ [status |-> 500,
                              error |-> "Failed to calculate event influence: Event not found"]
        ELSE \E events \in GetAllEvents :
               resp' = head @@ [status |-> 200, events |-> events]
                            @@ InfluenceResult(events, eventId, maxDepth)
  /\ UNCHANGED <<store, jobs, creations>>

(***************************************************************************)
(* performGlobalAnalysis and simulateInfluenceChanges of the influence     *)
(* controller.                                                             *)
(***************************************************************************)
DefaultMaxDepth == 3

\* The loop "Calculate influence for all events": an event whose
\* computation throws is logged with console.warn and left out.
RECURSIVE GlobalInfluenceMap(_, _)
GlobalInfluenceMap(events, rest) ==
  IF rest = <<>> THEN <<>>
  ELSE (IF FindById(Head(rest)) = NoEvent THEN <<>>
        ELSE <<[eventId   |-> Head(rest),
                influence |-> InfluenceResult(events, Head(rest),
                                              DefaultMaxDepth).totalInfluence]>>)
       \o GlobalInfluenceMap(events, Tail(rest))

\* "Calculate influence distribution": thresholds at 0.7 and 0.4 of the
\* largest total influence.
InfluenceDistribution(influenceMap) ==
  LET n    == Len(influenceMap)
      maxI == CHOOSE m \in {influenceMap[i].influence : i \in 1..n} \cup {0} :
                \A i \in 1..n : influenceMap[i].influence <= m
      high(i)   == influenceMap[i].influence * 10 >= maxI * 7
      medium(i) == ~high(i) /\ influenceMap[i].influence * 10 >= maxI * 4
  IN [high   |-> Cardinality({i \in 1..n : high(i)}),
      medium |-> Cardinality({i \in 1..n : medium(i)}),
      low    |-> Cardinality({i \in 1..n : ~high(i) /\ ~medium(i)})]

PerformGlobalAnalysis ==
  /\ Idle
  /\ \E events \in GetAllEvents :
       LET influenceMap == GlobalInfluenceMap(events, events)
       IN resp' = [op |-> "performGlobalAnalysis", status |-> 200,
                   events |-> events,
                   totalEvents |-> Len(events),
                   influenceMap |-> influenceMap,
                   influenceDistribution |-> InfluenceDistribution(influenceMap)]
  /\ UNCHANGED <<store, jobs, creations>>

\* The value of a call of an async method of the collection that is used
\* without await: the Promise, whatever it will resolve to.
Unawaited(value) == [kind |-> "Promise", resolves |-> value]

\* !value: a Promise is an object, so it is never falsy.
Falsy(value) == value.kind # "Promise" /\ value.resolves = NoEvent

\* simulateInfluenceChanges({ eventId, affectedEvents }): not an async
\* function, and no call of the collection is awaited.  The Promise
\* getEvent returns is truthy for every id, and it has no toObject: the
\* spread of event.toObject() throws.
SimulateInfluenceChanges(eventId) ==
  /\ Idle
  /\ LET head  == [op |-> "simulateInfluenceChanges", eventId |-> eventId]
         event == Unawaited(FindById(eventId))
     IN IF eventId = NoEvent
        THEN resp' = head @@ [status |-> 500,
                              error |-> "Missing required field: eventId"]
        ELSE IF Falsy(event)
        THEN resp' = head @@ [status |-> 500, error |-> "Event not found"]
        ELSE resp' = head @@ [status |-> 500,
                              error |-> "TypeError: event.toObject is not a function"]
  /\ UNCHANGED <<store, jobs, creations>>

(***************************************************************************)
(* simulateGapFilling of the gap controller.  getAllEvents() is used       *)
(* without await, and a Promise has no forEach: the handler throws before  *)
(* its first tempCollection.addEvent.                                      *)
(***************************************************************************)
StoreAfterSimulationApplied(st, eventId, newStartDate, newEndDate) ==
  [st EXCEPT ![eventId] = [start |-> newStartDate, end |-> newEndDate,
                           parentId |-> @.parentId]]

\* The table when simulateGapFilling ends: no addEvent has been called.
StoreAfterSimulation(st, eventId, newStartDate, newEndDate) == st

SimulateGapFilling(eventId, newStartDate, newEndDate) ==
  LET head == [op |-> "simulateGapFilling", eventId |-> eventId,
               newStartDate |-> newStartDate, newEndDate |-> newEndDate]
  IN /\ Idle
     /\ IF eventId = NoEvent \/ newStartDate = NoTime \/ newEndDate = NoTime
        THEN /\ resp' = head @@ [status |-> 500, error |-> "Missing required fields"]
             /\ UNCHANGED store
        ELSE IF FindById(eventId) = NoEvent
        THEN /\ resp' = head @@ [status |-> 500, error |-> "Event not found"]
             /\ UNCHANGED store
        ELSE /\ resp' = head @@
                  [status |-> 500,
                   error |-> "TypeError: getAllEvents(...).forEach is not a function"]
             /\ store' = StoreAfterSimulation(store, eventId,
                                              newStartDate, newEndDate)
     /\ UNCHANGED <<jobs, creations>>

(***************************************************************************)
(* GET /timeline/:rootEventId: buildHierarchicalTimeline calls itself on   *)
(* every child, with no record of the ids on the branch.  A call chain     *)
(* longer than the number of events repeats an id, and the recursion on a  *)
(* repeated id repeats for ever: the model cuts the chain there.           *)
(***************************************************************************)
MaxCallDepth == Cardinality(EventIds) + 1

RECURSIVE buildHierarchicalTimeline(_, _, _)
buildHierarchicalTimeline(events, event, callDepth) ==
  IF callDepth > MaxCallDepth
  THEN [event_id |-> event, returns |-> FALSE]
  ELSE
    LET children == GetChildEvents(events, event)
        built    == [i \in 1..Len(children) |->
                       buildHierarchicalTimeline(events, children[i], callDepth + 1)]
    IN [event_id         |-> event,
        duration_minutes |-> DurationMinutes(event),
        parent_event_id  |-> ParentId(event),
        children         |-> built,
        returns          |-> \A i \in 1..Len(built) : built[i].returns]

\* The handler answers when the builder returns; status 0 stands for a
\* request that is never answered.
Timeline(rootEventId) ==
  /\ Idle
  /\ LET head == [op |-> "timeline", rootEventId |-> rootEventId]
     IN IF FindById(rootEventId) = NoEvent
        THEN resp' = head @@ [status |-> 404, error |-> "Event not found"]
        ELSE \E events \in GetAllEvents :
               LET timeline == buildHierarchicalTimeline(events, rootEventId, 1)
               IN IF timeline.returns
                  THEN resp' = head @@ [status |-> 200, timeline |-> timeline]
                  ELSE resp' = head @@ [status |-> 0]
  /\ UNCHANGED <<store, jobs, creations>>

NextHierarchy ==
  \/ TakeResponse
  \/ \E src \in EventIds \cup {NoEvent}, tgt \in EventIds \cup {NoEvent} :
       InfluenceSpreaderPath(src, tgt)
  \/ \E e \in EventIds \cup {NoEvent}, d \in DepthInputs :
       CalculateEventInfluence(e, d)
  \/ PerformGlobalAnalysis
  \/ \E e \in EventIds \cup {NoEvent} : SimulateInfluenceChanges(e)
  \/ \E e \in EventIds \cup {NoEvent},
        s \in HierTimes \cup {NoTime}, t \in HierTimes \cup {NoTime} :
       SimulateGapFilling(e, s, t)
  \/ \E e \in EventIds : Timeline(e)
  \/ \E src \in EventIds, tgt \in EventIds : EventInfluencePath(src, tgt)
  \/ \E start \in HierTimes, end \in HierTimes : TemporalGaps(start, end)
  \/ \E start \in HierTimes, end \in HierTimes : OverlappingEvents(start, end)
  \/ \E m \in {-1, 0} : FindTemporalGaps(m, "", 0)

SpecHierarchy == InitHierarchy /\ [][NextHierarchy]_vars

(***************************************************************************)
(* Writes: Event.create (one event or an array), Event.update and          *)
(* Event.delete behind the events controller.  The data of a request keeps *)
(* what Joi and the table constraints look at: the id, whether a name is   *)
(* given, the two dates, the parent, and whether the object carries the    *)
(* key "duration", which eventSchema does not know.                        *)
(***************************************************************************)
StoreTimes == {0, 1, 2}

EventData ==
  [eventId : EventIds \cup {NoEvent}, eventName : BOOLEAN,
   startDate : StoreTimes, endDate : StoreTimes,
   parentId : EventIds \cup {NoEvent}, duration : BOOLEAN]

\* Event.validate: eventName is required and no key outside eventSchema is
\* allowed.  The schema does not compare the two dates.
Validate(data) == data.eventName /\ ~data.duration

\* The row of the INSERT or UPDATE, the parent set to null when no row has
\* that id.
RowOf(st, data) ==
  [start |-> data.startDate, end |-> data.endDate,
   parentId |-> IF data.parentId \in DOMAIN st THEN data.parentId ELSE NoEvent]

\* The constraint the statement violates, checks before the primary key.
ConstraintViolated(st, eventId, row, inserting) ==
  IF ~CheckEndAfterStart(row) THEN "check_end_after_start"
  ELSE IF ~CheckPositiveDuration(row) THEN "check_positive_duration"
  ELSE IF inserting /\ eventId \in DOMAIN st THEN "HistoricalEvents_pkey"
  ELSE "none"

\* Event.createSingleEvent on table st: false when validation fails, an
\* Error when the INSERT fails, the new event otherwise.  "fresh" is the id
\* uuidv4() yields when the data has none.
createSingleEvent(st, data, fresh) ==
  IF ~Validate(data) THEN [result |-> "false", store |-> st]
  ELSE
    LET eventId  == IF data.eventId # NoEvent THEN data.eventId ELSE fresh
        row      == RowOf(st, data)
        violated == ConstraintViolated(st, eventId, row, TRUE)
    IN IF violated # "none"
       THEN [result |-> "thrown", store |-> st,
             error |-> "Failed to create event", constraint |-> violated]
       ELSE [result |-> "created", eventId |-> eventId,
             store |-> [e \in DOMAIN st \cup {eventId} |->
                          IF e = eventId THEN row ELSE st[e]]]

\* createEvent of the controller: addEvent, then event.toObject().
CreateEvent(data) ==
  /\ Idle
  /\ \E fresh \in IF data.eventId # NoEvent THEN {NoEvent}
                  ELSE EventIds \ DOMAIN store :
       LET created == createSingleEvent(store, data, fresh)
           head    == [op |-> "createEvent", data |-> data]
       IN /\ store' = created.store
          /\ resp' = CASE created.result = "created" ->
                            head @@ [status |-> 201, eventId |-> created.eventId]
                       [] created.result = "false" ->
                            head @@ [status |-> 500, constraint |-> "none",
                                     error |-> "TypeError: event.toObject is not a function"]
                       [] OTHER ->
                            head @@ [status |-> 500, error |-> created.error,
                                     constraint |-> created.constraint]
  /\ UNCHANGED <<jobs, creations>>

\* The loop of Event.create over an array: an event createSingleEvent
\* returns is pushed to results, an Error it throws is pushed to errors,
\* and the value false is pushed nowhere.
RECURSIVE CreateLoop(_, _, _, _, _)
CreateLoop(st, eventData, i, results, errors) ==
  IF i > Len(eventData)
  THEN [store |-> st, success |-> results, failed |-> errors]
  ELSE
    LET created == createSingleEvent(st, eventData[i], NoEvent)
    IN CASE created.result = "created" ->
              CreateLoop(created.store, eventData, i + 1,
                         Append(results, created.eventId), errors)
         [] created.result = "thrown" ->
              CreateLoop(created.store, eventData, i + 1, results,
                         Append(errors, [data |-> eventData[i],
                                         error |-> created.error]))
         [] OTHER ->
              CreateLoop(created.store, eventData, i + 1, results, errors)

\* Event.create(eventData) with an array.
CreateEvents(eventData) ==
  /\ Idle
  /\ LET looped == CreateLoop(store, eventData, 1, <<>>, <<>>)
     IN /\ store' = looped.store
        /\ resp' = [op |-> "createEvents", status |-> 200,
                    eventData      |-> eventData,
                    before         |-> DOMAIN store,
                    success        |-> looped.success,
                    failed         |-> looped.failed,
                    totalProcessed |-> Len(eventData),
                    successCount   |-> Len(looped.success),
                    failureCount   |-> Len(looped.failed)]
  /\ UNCHANGED <<jobs, creations>>

\* updateEvent of the controller and Event.update: the data validated is
\* { ...this.toObject(), ...updateData, eventId: id }, and toObject()
\* carries the key "duration".
UpdateEvent(id, updateData) ==
  LET head   == [op |-> "updateEvent", eventId |-> id, data |-> updateData]
      merged == [updateData EXCEPT !.eventId = id, !.eventName = TRUE,
                                   !.duration = TRUE]
  IN /\ Idle
     /\ IF FindById(id) = NoEvent
        THEN /\ resp' = head @@ [status |-> 500, error |-> "Event not found",
                                 constraint |-> "none"]
             /\ UNCHANGED store
        ELSE IF ~Validate(merged)
        THEN /\ resp' = head @@ [status |-> 500, constraint |-> "none",
                                 error |-> "Failed to update event: Validation error update"]
             /\ UNCHANGED store
        ELSE LET row      == RowOf(store, merged)
                 violated == ConstraintViolated(store, id, row, FALSE)
             IN IF violated # "none"
                THEN /\ resp' = head @@ [status |-> 500, constraint |-> violated,
                                         error |-> "Failed to update event"]
                     /\ UNCHANGED store
                ELSE /\ resp' = head @@ [status |-> 200]
                     /\ store' = [store EXCEPT ![id] = row]
     /\ UNCHANGED <<jobs, creations>>

\* deleteEvent of the controller and Event.delete; fk_parent_event is ON
\* DELETE SET NULL.
DeleteEvent(id) ==
  /\ Idle
  /\ IF FindById(id) = NoEvent
     THEN /\ resp' = [op |-> "deleteEvent", eventId |-> id, status |-> 500,
                      error |-> "Event not found"]
          /\ UNCHANGED store
     ELSE /\ resp' = [op |-> "deleteEvent", eventId |-> id, status |-> 200]
          /\ store' = [e \in DOMAIN store \ {id} |->
                         IF store[e].parentId = id
                         THEN [store[e] EXCEPT !.parentId = NoEvent]
                         ELSE store[e]]
  /\ UNCHANGED <<jobs, creations>>

(***************************************************************************)
(* POST /ingest and processFileAsync.  A line is well formed when it has   *)
(* six fields and two dates that parse.  The loop does not await           *)
(* eventCollection.addEvent: it counts the line as processed at once and   *)
(* marks the job COMPLETED; the creations it started settle afterwards,    *)
(* one by one, in an order the database connections decide, between and    *)
(* during other requests.                                                  *)
(***************************************************************************)
MaxLines == 2

\* The events a line or an array element may describe in the write
\* requests of several records.
RecordData ==
  {d \in EventData :
     /\ d.eventId # NoEvent
     /\ ~d.duration
     /\ <<d.startDate, d.endDate>> \in {<<0, 2>>, <<2, 0>>}
     /\ d.parentId \in {NoEvent, 1}}

\* The events a line of an ingested file may describe.
LineData == {d \in RecordData : d.eventId \in {1, 2}}

MalformedLine ==
  [wellFormed |-> FALSE,
   data |-> [eventId |-> NoEvent, eventName |-> FALSE, startDate |-> 0,
             endDate |-> 0, parentId |-> NoEvent, duration |-> FALSE]]

Lines == {[wellFormed |-> TRUE, data |-> d] : d \in LineData} \cup {MalformedLine}

Files == UNION {[1..n -> Lines] : n \in 0..MaxLines}

\* What an ingest request carries: no file and no file path, a path that
\* cannot be read, or a readable file.
NoFile == [provided |-> FALSE, readable |-> FALSE, lines |-> <<>>]

UnreadableFile == [provided |-> TRUE, readable |-> FALSE, lines |-> <<>>]

IngestRequests ==
  {NoFile, UnreadableFile}
    \cup {[provided |-> TRUE, readable |-> TRUE, lines |-> f] : f \in Files}

\* The number of ingest requests of a run.
MaxJobs == 1

JobIds == 1..MaxJobs

\* ingestionJobs.set(jobId, {status: 'PROCESSING', ...}).  errors holds the
\* numbers of the lines with a message, 0 for the file as a whole.
NewJob ==
  [status |-> "PROCESSING", processedLines |-> 0, errorLines |-> 0,
   totalLines |-> 0, errors |-> {}, endTime |-> "null"]

\* The catch of processFileAsync when fs.readFileSync throws.
JobFailed ==
  [NewJob EXCEPT !.status = "FAILED", !.errors = {0}, !.endTime = "set"]

\* The job record when processFileAsync has run through the lines: the
\* loop has no await, so it runs to the end within the request.
JobAfter(lines) ==
  LET bad == {i \in 1..Len(lines) : ~lines[i].wellFormed}
  IN [status         |-> "COMPLETED",
      totalLines     |-> Len(lines),
      processedLines |-> Len(lines) - Cardinality(bad),
      errorLines     |-> Cardinality(bad),
      errors         |-> bad,
      endTime        |-> "set"]

\* The promises of the calls eventCollection.addEvent(event) of the loop,
\* none of them awaited: one pending creation for each well-formed line.
StartedCreations(jobId, lines) ==
  {[job |-> jobId, line |-> i, data |-> lines[i].data, state |-> "pending"] :
     i \in {k \in 1..Len(lines) : lines[k].wellFormed}}

\* POST /ingest: the job is registered before the request is looked at.
PostIngest(request) ==
  /\ Idle
  /\ Len(jobs) < MaxJobs
  /\ LET jobId == Len(jobs) + 1
         head  == [op |-> "ingest", jobId |-> jobId]
     IN IF ~request.provided
        THEN /\ jobs' = Append(jobs, NewJob)
             /\ resp' = head @@ [status |-> 400, error |-> "No file provided"]
             /\ UNCHANGED creations
        ELSE IF ~request.readable
        THEN /\ jobs' = Append(jobs, JobFailed)
             /\ resp' = head @@ [status |-> 202]
             /\ UNCHANGED creations
        ELSE /\ jobs' = Append(jobs, JobAfter(request.lines))
             /\ resp' = head @@ [status |-> 202]
             /\ creations' = creations \cup StartedCreations(jobId, request.lines)
  /\ UNCHANGED store

\* A creation the loop started settles: Event.create runs on the table as
\* it is by then.  Nothing waits for the outcome.
SettleCreation(creation) ==
  /\ creation \in creations
  /\ creation.state = "pending"
  /\ LET created == createSingleEvent(store, creation.data, NoEvent)
     IN /\ store' = created.store
        /\ creations' = (creations \ {creation})
                          \cup {[creation EXCEPT !.state = created.result]}
  /\ UNCHANGED <<resp, jobs>>

\* GET /ingestion-status/:jobId
IngestionStatus(jobId) ==
  /\ Idle
  /\ resp' = IF jobId \in DOMAIN jobs
             THEN [op |-> "ingestionStatus", jobId |-> jobId, status |-> 200,
                   job |-> jobs[jobId]]
             ELSE [op |-> "ingestionStatus", jobId |-> jobId, status |-> 404,
                   error |-> "Job not found"]
  /\ UNCHANGED <<store, jobs, creations>>

InitStore ==
  /\ store = <<>>
  /\ resp = NoResponse
  /\ jobs = <<>>
  /\ creations = {}

NextStore ==
  \/ TakeResponse
  \/ \E data \in EventData : CreateEvent(data)
  \/ \E n \in 1..MaxLines : \E eventData \in [1..n -> RecordData] :
       CreateEvents(eventData)
  \/ \E id \in EventIds, data \in RecordData : UpdateEvent(id, data)
  \/ \E id \in EventIds : DeleteEvent(id)
  \/ \E e \in EventIds \cup {NoEvent},
        s \in StoreTimes \cup {NoTime}, t \in StoreTimes \cup {NoTime} :
       SimulateGapFilling(e, s, t)

SpecStore == InitStore /\ [][NextStore]_vars

\* Ingestion next to the other writer of several records: an array create
\* may run while creations of a job are still pending.
NextIngest ==
  \/ TakeResponse
  \/ \E request \in IngestRequests : PostIngest(request)
  \/ \E creation \in creations : SettleCreation(creation)
  \/ \E jobId \in JobIds : IngestionStatus(jobId)
  \/ \E eventData \in [1..1 -> LineData] : CreateEvents(eventData)

SpecIngest == InitStore /\ [][NextIngest]_vars

\* The server keeps answering requests and the event loop runs every
\* callback that is ready: a step that stays possible is taken.
FairSpecIngest ==
  /\ SpecIngest
  /\ WF_vars(NextIngest)
  /\ WF_vars(TakeResponse)
  /\ WF_vars(\E creation \in creations : SettleCreation(creation))

(***************************************************************************)
(* The interval helpers on their own: Event.overlaps and Event.calculateGap *)
(* of the model, eventsOverlap and calculateOverlapDuration of the insights *)
(* routes, each applied to a pair of stored events in both argument orders. *)
(***************************************************************************)
\* Variant: the comparisons taken with <=, so that touching events overlap.
overlapsInclusive(event, otherEvent) ==
  Start(event) <= End(otherEvent) /\ End(event) >= Start(otherEvent)

\* this.startDate.isBefore(otherEvent.endDate) &&
\* this.endDate.isAfter(otherEvent.startDate)
overlaps(event, otherEvent) ==
  Start(event) < End(otherEvent) /\ End(event) > Start(otherEvent)

\* moment's a.diff(b, 'minutes'): (a - b) in minutes, truncated towards zero.
DiffMinutes(a, b) ==
  IF a >= b THEN (a - b) \div UnitsPerMin ELSE -((b - a) \div UnitsPerMin)

\* Event.calculateGap
calculateGap(event, otherEvent) ==
  IF overlaps(event, otherEvent) THEN 0
  ELSE IF End(event) < Start(otherEvent)
       THEN DiffMinutes(Start(otherEvent), End(event))
       ELSE DiffMinutes(Start(event), End(otherEvent))

Overlaps(a, b) ==
  /\ Idle
  /\ resp' = [op |-> "overlaps", status |-> 200, a |-> a, b |-> b,
              overlaps      |-> overlaps(a, b),
              reversed      |-> overlaps(b, a),
              eventsOverlap |-> eventsOverlap(a, b)]
  /\ UNCHANGED <<store, jobs, creations>>

CalculateOverlapDuration(a, b) ==
  /\ Idle
  /\ resp' = [op |-> "calculateOverlapDuration", status |-> 200, a |-> a, b |-> b,
              overlapMinutes |-> calculateOverlapDuration(a, b),
              reversed       |-> calculateOverlapDuration(b, a)]
  /\ UNCHANGED <<store, jobs, creations>>

CalculateGap(a, b) ==
  /\ Idle
  /\ resp' = [op |-> "calculateGap", status |-> 200, a |-> a, b |-> b,
              gapMinutes |-> calculateGap(a, b),
              reversed   |-> calculateGap(b, a)]
  /\ UNCHANGED <<store, jobs, creations>>

NextInterval ==
  \/ TakeResponse
  \/ \E a \in DOMAIN store, b \in DOMAIN store : Overlaps(a, b)
  \/ \E a \in DOMAIN store, b \in DOMAIN store : CalculateOverlapDuration(a, b)
  \/ \E a \in DOMAIN store, b \in DOMAIN store : CalculateGap(a, b)

SpecInterval == Init /\ [][NextInterval]_vars

(***************************************************************************)
(* Properties                                                              *)
(***************************************************************************)
IsGapFinder == resp.op = "findTemporalGaps" /\ resp.status = 200

IsWindowQuery ==
  resp.op = "temporalGaps" /\ resp.status = 200 /\ resp.start < resp.end

IsPathResult == resp.op = "eventInfluencePath" /\ resp.status = 200

\* The adjacent pairs (E_i, E_i+1) of a snapshot with a true gap of at least
\* minGapMinutes, as <<preceding, succeeding, gapStart, gapEnd>>.
AdjacentTrueGaps(events, minGapMinutes) ==
  {<<events[i], events[i + 1], store[events[i]].end, store[events[i + 1]].start>> :
     i \in {k \in 1..(Len(events) - 1) :
              /\ store[events[k]].end < store[events[k + 1]].start
              /\ store[events[k + 1]].start - store[events[k]].end
                   >= minGapMinutes * UnitsPerMin}}

Intersects(e, lo, hi) == store[e].start < hi /\ store[e].end > lo

\* The event's interval meets the open span (lo, hi); an empty span meets nothing.
MeetsOpenSpan(e, lo, hi) == Max2(store[e].start, lo) < Min2(store[e].end, hi)

\* C1: in global mode the gap finder returns exactly one gap for every
\* chronologically adjacent pair with E_i.end < E_i+1.start and duration >=
\* minGapMinutes, from E_i.end to E_i+1.start (so two events separated by a
\* positive gap give a non-empty result for minGapMinutes = 0).
C1_GlobalGapsAreAdjacentPairs ==
  (IsGapFinder /\ resp.severity = "" /\ resp.limit = 0 /\ resp.minGapMinutes >= 0) =>
    \E events \in GetAllEvents :
      /\ {<<g.beforeEvent, g.afterEvent, g.gapStart, g.gapEnd>> : g \in Range(resp.gaps)}
           = AdjacentTrueGaps(events, resp.minGapMinutes)
      /\ Len(resp.gaps) = Cardinality(AdjacentTrueGaps(events, resp.minGapMinutes))

\* C2: every gap returned names two distinct events, the second being the
\* chronological successor of the first.
C2_GapNamesTwoDistinctEvents ==
  /\ IsGapFinder =>
       \A g \in Range(resp.gaps) :
         /\ g.beforeEvent # g.afterEvent
         /\ store[g.beforeEvent].start <= store[g.afterEvent].start
  /\ (resp.op = "temporalGaps" /\ resp.status = 200) =>
       \A g \in Range(resp.largestGap) :
         /\ g.precedingEvent # g.succeedingEvent
         /\ store[g.precedingEvent].start <= store[g.succeedingEvent].start

\* C3: the windowed query takes as in-window events every event whose
\* interval intersects [start, end), and as boundary events the latest-ending
\* event ending at or before start and the earliest-starting event starting
\* at or after end.
C3_WindowTakesIntersectingEvents ==
  IsWindowQuery =>
    /\ Range(resp.filteredEvents)
         = {e \in DOMAIN store : Intersects(e, resp.start, resp.end)}
    /\ LET endedBefore  == {e \in DOMAIN store : store[e].end <= resp.start}
           startedAfter == {e \in DOMAIN store : store[e].start >= resp.end}
       IN /\ IF endedBefore = {} THEN resp.mostRecentBeforeStart = NoEvent
             ELSE /\ resp.mostRecentBeforeStart \in endedBefore
                  /\ \A e \in endedBefore :
                       store[e].end <= store[resp.mostRecentBeforeStart].end
          /\ IF startedAfter = {} THEN resp.earliestAfterEnd = NoEvent
             ELSE /\ resp.earliestAfterEnd \in startedAfter
                  /\ \A e \in startedAfter :
                       store[e].start >= store[resp.earliestAfterEnd].start

\* C4: for every gap reported, by the global mode or by the windowed query,
\* no event of the snapshot intersects the open span (gapStart, gapEnd).
C4_NoEventInsideReportedGap ==
  /\ IsGapFinder =>
       \A g \in Range(resp.gaps) :
         \A e \in DOMAIN store : ~MeetsOpenSpan(e, g.gapStart, g.gapEnd)
  /\ IsWindowQuery =>
       \A g \in Range(resp.largestGap) :
         \A e \in DOMAIN store : ~MeetsOpenSpan(e, g.startOfGap, g.endOfGap)

\* C5: every gap emitted by any gap routine is a true gap, precedingEnd <
\* succeedingStart strictly; touching or overlapping events give no gap.
C5_EveryGapIsTrueGap ==
  /\ IsGapFinder =>
       \A g \in Range(resp.gaps) :
         /\ g.gapStart < g.gapEnd
         /\ store[g.beforeEvent].end < store[g.afterEvent].start
  /\ (resp.op = "temporalGaps" /\ resp.status = 200) =>
       \A g \in Range(resp.gaps) :
         /\ g.startOfGap < g.endOfGap
         /\ store[g.precedingEvent].end < store[g.succeedingEvent].start

\* The true gaps between the events the serving handler lines up, in minutes.
TrueGapMinutes(chain) ==
  {(2 * (store[chain[i + 1]].start - store[chain[i]].end) + UnitsPerMin)
      \div (2 * UnitsPerMin) :
     i \in {k \in 1..(Len(chain) - 1) :
              store[chain[k]].end < store[chain[k + 1]].start}}

\* C6: the largest gap returned by GET /temporal-gaps is at least as long, in
\* minutes, as every true gap found for the query, and null is returned
\* exactly when there is no true gap; this is the handler that serves the path.
C6_LargestGapIsMaximal ==
  (resp.op = "temporalGaps" /\ resp.status = 200) =>
    /\ (resp.largestGap = <<>>) <=> (TrueGapMinutes(resp.chain) = {})
    /\ \A g \in Range(resp.largestGap) :
         /\ g.durationMinutes \in TrueGapMinutes(resp.chain)
         /\ \A m \in TrueGapMinutes(resp.chain) : g.durationMinutes >= m

C6_Witness ==
  /\ resp.op = "temporalGaps" /\ resp.status = 200
  /\ Len(resp.gaps) >= 2
  /\ resp.largestGap[1].durationMinutes > resp.gaps[2].durationMinutes
  /\ resp.largestGap[1].startOfGap > resp.gaps[2].startOfGap

Precedes(a, b) == a # b /\ store[a].end <= store[b].start

\* The events reachable from src over at most k precedence edges.
RECURSIVE ReachWithin(_, _)
ReachWithin(src, k) ==
  IF k = 0 THEN {src}
  ELSE LET r == ReachWithin(src, k - 1)
       IN r \cup {b \in DOMAIN store : \E a \in r : Precedes(a, b)}

Reachable(src) == ReachWithin(src, Cardinality(DOMAIN store))

\* C8: the graph built for a path query has an edge A->B exactly for the
\* ordered pairs of distinct events with A.end <= B.start.
C8_GraphIsPrecedenceRelation ==
  IsPathResult =>
    /\ DOMAIN resp.graph = DOMAIN store
    /\ \A a \in DOMAIN store :
         /\ Injective(resp.graph[a])
         /\ \A b \in DOMAIN store :
              (b \in Range(resp.graph[a])) <=> Precedes(a, b)

C8_Witness ==
  /\ IsPathResult
  /\ \E a, b \in DOMAIN store :
       a # b /\ store[a].end = store[b].start /\ b \in Range(resp.graph[a])
  /\ \E a, b \in DOMAIN store :
       a # b /\ store[a].end > store[b].start /\ b \notin Range(resp.graph[a])

\* C9: a non-empty path starts at the source, ends at the target, follows
\* precedence edges, repeats no event, and no precedence chain from source
\* to target has fewer edges.
C9_PathIsShortestChain ==
  (IsPathResult /\ resp.shortestPath # <<>>) =>
    LET path == [i \in 1..Len(resp.shortestPath) |-> resp.shortestPath[i].event_id]
    IN /\ path[1] = resp.sourceEventId
       /\ path[Len(path)] = resp.targetEventId
       /\ \A i \in 1..(Len(path) - 1) : Precedes(path[i], path[i + 1])
       /\ Injective(path)
       /\ \A k \in 0..(Len(path) - 2) :
            resp.targetEventId \notin ReachWithin(resp.sourceEventId, k)

C9_Witness ==
  /\ IsPathResult
  /\ Len(resp.shortestPath) = 2
  /\ \E c \in DOMAIN store :
       Precedes(resp.sourceEventId, c) /\ Precedes(c, resp.targetEventId)

\* C10: the empty path with total 0 is returned as a success exactly when
\* both events exist and the target is not reachable from the source.
C10_EmptyPathIffUnreachable ==
  resp.op = "eventInfluencePath" =>
    /\ (resp.status = 200 /\ resp.shortestPath = <<>>)
         <=> (/\ resp.sourceEventId \in DOMAIN store
              /\ resp.targetEventId \in DOMAIN store
              /\ resp.targetEventId \notin Reachable(resp.sourceEventId))
    /\ (resp.status = 200 /\ resp.shortestPath = <<>>) => resp.totalDurationMinutes = 0

C10_Witness ==
  /\ IsPathResult
  /\ resp.shortestPath = <<>>
  /\ resp.totalDurationMinutes = 0
  /\ store[resp.sourceEventId].start >= store[resp.targetEventId].end

\* A response of one of the two windowed queries whose window was supplied.
IsWindowedResponse ==
  /\ resp.op \in {"temporalGaps", "overlappingEvents"}
  /\ resp.start # NoTime
  /\ resp.end # NoTime

\* C18: a windowed query (overlapping events or temporal gaps) whose window
\* end is at or before its start is answered with a failure (InvalidRange)
\* and carries no analysis result.
C18_EmptyWindowIsRejected ==
  (IsWindowedResponse /\ resp.end <= resp.start) => resp.status # 200

\* A completed path query with a non-empty path.
IsNonEmptyPath ==
  /\ resp.op = "eventInfluencePath"
  /\ resp.status = 200
  /\ resp.shortestPath # <<>>

\* The duration end - start of a stored event in whole minutes, to the
\* nearest minute (half a minute and more counts as a minute).
OwnDurationMinutes(e) ==
  CHOOSE m \in 0..MaxTime :
    /\ 2 * UnitsPerMin * m - UnitsPerMin <= 2 * (store[e].end - store[e].start)
    /\ 2 * (store[e].end - store[e].start) < 2 * UnitsPerMin * m + UnitsPerMin

\* C11: for every non-empty path a path query returns, totalDurationMinutes
\* is the sum over the events on the path of each event's own duration
\* (end - start) in minutes; the time between the events is not counted.
C11_TotalIsSumOfOwnDurations ==
  IsNonEmptyPath =>
    resp.totalDurationMinutes =
      SumSeq([i \in 1..Len(resp.shortestPath) |->
                OwnDurationMinutes(resp.shortestPath[i].event_id)])

\* A path of several events whose total is not the minutes that elapse
\* from the start of its first event to the end of its last one.
C11_Witness ==
  /\ IsNonEmptyPath
  /\ Len(resp.shortestPath) >= 2
  /\ resp.totalDurationMinutes # ElapsedSpanMinutes(resp.shortestPath)

IsInfluenceResult == resp.op = "calculateEventInfluence" /\ resp.status = 200

\* One hierarchy link joins an event and its declared parent.
HierarchyLinked(a, b) ==
  /\ a \in DOMAIN store
  /\ b \in DOMAIN store
  /\ (store[a].parentId = b \/ store[b].parentId = a)

\* The events within k hierarchy links of the source.
RECURSIVE WithinLinks(_, _)
WithinLinks(source, k) ==
  IF k = 0 THEN {source}
  ELSE LET near == WithinLinks(source, k - 1)
       IN near \cup {e \in DOMAIN store : \E n \in near : HierarchyLinked(n, e)}

\* The least number of hierarchy links from the source to a linked event.
LinkDistance(source, e) ==
  CHOOSE k \in 0..Cardinality(DOMAIN store) :
    /\ e \in WithinLinks(source, k)
    /\ \A j \in 0..(k - 1) : e \notin WithinLinks(source, j)

\* 0.7 to the power depth, in the unit of ScoreOne.
ExpectedScore(depth) == (ScoreOne * DecayTenths ^ depth) \div (10 ^ depth)

\* C12: the influence result of (source, maxDepth) holds exactly the events
\* within maxDepth hierarchy links (to children and to the declared parent)
\* of the source, each with score 0.7^d for its depth d: the source with
\* score 1, its declared parent at depth 1 when maxDepth >= 1, and nothing
\* deeper than maxDepth.
C12_InfluenceReachesChildrenAndParent ==
  IsInfluenceResult =>
    LET records == resp.influenceMap
    IN /\ {records[i].eventId : i \in 1..Len(records)}
            = WithinLinks(resp.eventId, resp.maxDepth)
       /\ \A i \in 1..Len(records) :
            /\ records[i].eventId \in WithinLinks(resp.eventId, resp.maxDepth)
                 => records[i].influence
                      = ExpectedScore(LinkDistance(resp.eventId, records[i].eventId))
            /\ records[i].event.depth <= resp.maxDepth

\* The ancestors of an event: its declared parent, that parent's parent, ...
RECURSIVE AncestorsWithin(_, _)
AncestorsWithin(e, k) ==
  IF k = 0 \/ store[e].parentId = NoEvent THEN {}
  ELSE {store[e].parentId} \cup AncestorsWithin(store[e].parentId, k - 1)

\* The parent links starting at e lead back to e.
OnParentCycle(e) == e \in AncestorsWithin(e, Cardinality(DOMAIN store))

\* C13: in an influence result every event id occurs in one record at most;
\* the record of an event carries the largest score (that of the smallest
\* depth) among the rows the traversal produced for it; and totalInfluence
\* is the sum of the scores of the returned records, so that nothing is
\* counted twice, cycles of parent links included.
C13_NoDoubleCounting ==
  IsInfluenceResult =>
    LET records == resp.influenceMap
        rows    == resp.rows
    IN /\ \A i, j \in 1..Len(records) :
            records[i].eventId = records[j].eventId => i = j
       /\ \A i \in 1..Len(records) :
            /\ \E k \in 1..Len(rows) :
                 /\ rows[k].event_id = records[i].eventId
                 /\ records[i].influence = ExpectedScore(rows[k].depth)
            /\ \A k \in 1..Len(rows) :
                 rows[k].event_id = records[i].eventId
                   => records[i].influence >= ExpectedScore(rows[k].depth)
       /\ resp.totalInfluence
            = SumSeq([i \in 1..Len(records) |-> records[i].influence])

\* An influence result of several records whose source lies on a cycle of
\* parent links, with depth left to go round the cycle again.
C13_Witness ==
  /\ IsInfluenceResult
  /\ OnParentCycle(resp.eventId)
  /\ Len(resp.influenceMap) >= 2
  /\ resp.maxDepth >= Len(resp.influenceMap)

\* C14: every traversal of the hierarchy (the influence traversal, the
\* hierarchy shortest-path search, the hierarchical timeline builder) comes
\* to an end on every table, a table whose parent links form a cycle
\* included: the request is answered.
C14_HierarchyTraversalsTerminate ==
  resp.op \in {"calculateEventInfluence", "hierarchyPath", "timeline"}
    => resp.status # 0

\* The analysis operations: overlap and gap queries, both path queries, the
\* influence computation and global analysis, the timeline, and the two
\* simulations.
AnalysisOps ==
  {"overlappingEvents", "temporalGaps", "findTemporalGaps",
   "eventInfluencePath", "hierarchyPath", "calculateEventInfluence",
   "performGlobalAnalysis", "timeline",
   "simulateGapFilling", "simulateInfluenceChanges"}

\* C15: every analysis operation leaves the store as it found it; a
\* simulation evaluates its hypothetical interval without inserting,
\* updating or deleting an event.
C15_AnalysisLeavesStoreUnchanged ==
  [][resp'.op \in AnalysisOps => store' = store]_vars

\* A gap simulation on an existing event with a new interval that is not
\* the stored one has ended.
C15_Witness ==
  /\ resp.op = "simulateGapFilling"
  /\ resp.eventId \in DOMAIN store
  /\ resp.newStartDate \in HierTimes
  /\ resp.newEndDate \in HierTimes
  /\ resp.newStartDate < resp.newEndDate
  /\ <<resp.newStartDate, resp.newEndDate>>
       # <<store[resp.eventId].start, store[resp.eventId].end>>

\* A gap simulation asked for an existing event with a valid new interval.
IsValidGapSimulation ==
  /\ resp.op = "simulateGapFilling"
  /\ resp.eventId \in DOMAIN store
  /\ resp.newStartDate # NoTime
  /\ resp.newEndDate # NoTime
  /\ resp.newStartDate < resp.newEndDate

\* C16: simulateGap for an existing event and a valid interval completes
\* with a comparison of the gaps before and after the change
\* (originalGapCount, newGapCount, affectedGaps).
C16_GapSimulationCompletes ==
  IsValidGapSimulation => resp.status = 200

\* The failures that report an event id the store does not hold.
NotFoundErrors ==
  {"Source event not found", "Target event not found", "Event not found",
   "Failed to calculate event influence: Event not found"}

\* A response to a request that names, with every required field present,
\* an event id the store does not hold.
NamesUnknownEvent ==
  \/ /\ resp.op \in {"eventInfluencePath", "hierarchyPath"}
     /\ resp.sourceEventId # NoEvent
     /\ resp.targetEventId # NoEvent
     /\ (resp.sourceEventId \notin DOMAIN store \/ resp.targetEventId \notin DOMAIN store)
  \/ /\ resp.op \in {"calculateEventInfluence", "simulateInfluenceChanges"}
     /\ resp.eventId # NoEvent
     /\ resp.eventId \notin DOMAIN store
  \/ /\ resp.op = "simulateGapFilling"
     /\ resp.eventId # NoEvent
     /\ resp.newStartDate # NoTime
     /\ resp.newEndDate # NoTime
     /\ resp.eventId \notin DOMAIN store

\* C17: every operation that takes an event id (both path queries, the
\* influence computation, the gap simulation, the influence simulation)
\* answers an id the store does not hold with a NotFound failure and no
\* analysis result; and the global influence analysis reports on every
\* event, dropping none.
C17_UnknownEventIsNotFound ==
  /\ NamesUnknownEvent => (resp.status # 200 /\ resp.error \in NotFoundErrors)
  /\ resp.op = "performGlobalAnalysis"
       => Len(resp.influenceMap) = resp.totalEvents

\* The failures that report an interval whose end is not after its start.
InvalidIntervalFailures == {"check_end_after_start", "InvalidInterval"}

\* Every stored event ends after it starts.
StoredIntervalsValid == \A e \in DOMAIN store : store[e].end > store[e].start

\* A create or update request, acceptable otherwise, whose end is at or
\* before its start is refused and names the interval as the reason when
\* it reaches the table.
WriteOfInvalidIntervalRefused ==
  /\ (/\ resp.op = "createEvent"
      /\ Validate(resp.data)
      /\ resp.data.endDate <= resp.data.startDate)
       => (resp.status # 201 /\ resp.constraint \in InvalidIntervalFailures)
  /\ (/\ resp.op = "updateEvent"
      /\ resp.data.endDate <= resp.data.startDate)
       => resp.status # 200

\* C19: an event whose end is at or before its start is rejected with an
\* InvalidInterval failure wherever it is supplied: no sequence of create,
\* update and delete stores one, and a gap simulation of an existing event
\* with newEnd <= newStart fails with that failure instead of computing
\* gaps.
C19_InvalidIntervalIsRejected ==
  /\ StoredIntervalsValid
  /\ WriteOfInvalidIntervalRefused
  /\ (/\ resp.op = "simulateGapFilling"
      /\ resp.eventId \in DOMAIN store
      /\ resp.newStartDate # NoTime
      /\ resp.newEndDate # NoTime
      /\ resp.newEndDate <= resp.newStartDate)
       => (resp.status # 200 /\ resp.error \in InvalidIntervalFailures)

\* C20: bulk ingestion skips every malformed or invalid record, records it
\* as failed and goes on with the batch.  Event.create on an array returns
\* successCount + failureCount = totalProcessed, and each record that was
\* not stored appears in 'failed'; in a file ingestion job each line that
\* yields no stored event is counted in errorLines, has its message in
\* errors, and is not counted in processedLines.
C20_SkippedRecordsAreRecorded ==
  /\ resp.op = "createEvents" =>
       /\ resp.successCount + resp.failureCount = resp.totalProcessed
       /\ \A i \in 1..Len(resp.eventData) :
            resp.eventData[i].eventId \notin Range(resp.success)
              => \E j \in 1..Len(resp.failed) :
                   resp.failed[j].data = resp.eventData[i]
  /\ \A j \in DOMAIN jobs :
       LET started == {c \in creations : c.job = j}
           stored  == {c \in started : c.state = "created"}
       IN ( /\ jobs[j].status = "COMPLETED"
            /\ \A c \in started : c.state # "pending" )
          => /\ {c.line : c \in started \ stored} \subseteq jobs[j].errors
             /\ jobs[j].errorLines = jobs[j].totalLines - Cardinality(stored)
             /\ jobs[j].processedLines = Cardinality(stored)

\* C21: two events overlap exactly when a.start < b.end and a.end > b.start,
\* so events that only touch at an endpoint do not overlap; the answer is
\* the same for (a, b) and (b, a), and Event.overlaps and the route helper
\* eventsOverlap agree on every pair.
C21_OverlapIsStrictAndSymmetric ==
  resp.op = "overlaps" =>
    LET a == store[resp.a]
        b == store[resp.b]
    IN /\ resp.overlaps = (a.start < b.end /\ a.end > b.start)
       /\ (a.end = b.start \/ b.end = a.start) => ~resp.overlaps
       /\ resp.reversed = resp.overlaps
       /\ resp.eventsOverlap = resp.overlaps

\* Two events that touch at an endpoint, found not to overlap.
C21_Witness ==
  /\ resp.op = "overlaps"
  /\ store[resp.a].end = store[resp.b].start
  /\ ~resp.overlaps
  /\ ~resp.eventsOverlap

\* The length, in time units, of the intersection of the events of the
\* answered pair, and the stored duration_minutes of an event.
IntersectionOfPair ==
  Min2(store[resp.a].end, store[resp.b].end)
    - Max2(store[resp.a].start, store[resp.b].start)

StoredDurationMinutes(e) == RoundMinutes(store[e].end - store[e].start)

IsOverlapOfOverlappingPair ==
  /\ resp.op = "calculateOverlapDuration"
  /\ store[resp.a].start < store[resp.b].end
  /\ store[resp.a].end > store[resp.b].start

\* C22 as stated: for overlapping events overlapMinutes is the same in both
\* argument orders, is the intersection rounded to the nearest minute, and
\* satisfies 0 < overlapMinutes <= min(duration(A), duration(B)), also when
\* the intersection is shorter than half a minute.
C22_OverlapMinutesArePositive ==
  IsOverlapOfOverlappingPair =>
    /\ resp.reversed = resp.overlapMinutes
    /\ 0 < resp.overlapMinutes
    /\ resp.overlapMinutes
         <= Min2(StoredDurationMinutes(resp.a), StoredDurationMinutes(resp.b))

\* C22, amended: for overlapping events overlapMinutes is the same in both
\* argument orders, is the whole number of minutes nearest to the length of
\* the intersection, and satisfies
\* 0 <= overlapMinutes <= min(duration(A), duration(B)); it is 0 exactly
\* when the intersection is shorter than half a minute.
C22_OverlapMinutesAreRounded ==
  IsOverlapOfOverlappingPair =>
    /\ resp.reversed = resp.overlapMinutes
    /\ 2 * (resp.overlapMinutes * UnitsPerMin - IntersectionOfPair) <= UnitsPerMin
    /\ 2 * (IntersectionOfPair - resp.overlapMinutes * UnitsPerMin) <= UnitsPerMin
    /\ 0 <= resp.overlapMinutes
    /\ resp.overlapMinutes
         <= Min2(StoredDurationMinutes(resp.a), StoredDurationMinutes(resp.b))
    /\ (resp.overlapMinutes = 0) = (2 * IntersectionOfPair < UnitsPerMin)

\* Two distinct events whose intersection is shorter than half a minute,
\* answered with 0 minutes of overlap.
C22_Witness ==
  /\ IsOverlapOfOverlappingPair
  /\ resp.a # resp.b
  /\ IntersectionOfPair > 0
  /\ 2 * IntersectionOfPair < UnitsPerMin
  /\ resp.overlapMinutes = 0

\* C24: the gap between two events is never negative and is the same in
\* both argument orders: b.start - a.end when a ends at or before b starts,
\* a.start - b.end when b ends at or before a starts, and 0 when the events
\* overlap; in particular touching events (a.end = b.start) have gap 0.
C24_GapIsNonNegativeAndSymmetric ==
  resp.op = "calculateGap" =>
    LET a == store[resp.a]
        b == store[resp.b]
    IN /\ resp.gapMinutes >= 0
       /\ resp.reversed = resp.gapMinutes
       /\ a.end <= b.start =>
            resp.gapMinutes = (b.start - a.end) \div UnitsPerMin
       /\ b.end <= a.start =>
            resp.gapMinutes = (a.start - b.end) \div UnitsPerMin
       /\ (a.start < b.end /\ a.end > b.start) => resp.gapMinutes = 0
       /\ a.end = b.start => resp.gapMinutes = 0

IsOverlapAnswer == resp.op = "overlappingEvents" /\ resp.status = 200

\* The unordered pairs the overlap query returned.
ReturnedPairs ==
  {{resp.overlappingPairs[k].overlappingEventPairs[1],
    resp.overlappingPairs[k].overlappingEventPairs[2]} :
     k \in 1..Len(resp.overlappingPairs)}

IntersectsWindow(e) == store[e].start < resp.end /\ store[e].end > resp.start

\* C23: the overlap query over a window returns exactly the unordered pairs
\* of distinct events that both intersect the window (start < windowEnd and
\* end > windowStart) and strictly overlap each other, each pair once; no
\* touching or disjoint pair is returned.
C23_OverlapPairsAreExact ==
  IsOverlapAnswer =>
    /\ ReturnedPairs =
         {{a, b} : <<a, b>> \in
            {p \in (DOMAIN store) \X (DOMAIN store) :
               /\ p[1] # p[2]
               /\ IntersectsWindow(p[1]) /\ IntersectsWindow(p[2])
               /\ store[p[1]].start < store[p[2]].end
               /\ store[p[1]].end > store[p[2]].start}}
    /\ Cardinality(ReturnedPairs) = Len(resp.overlappingPairs)
    /\ \A pair \in ReturnedPairs : Cardinality(pair) = 2

\* A window holding a pair that overlaps, which is returned, and a pair
\* that only touches, which is not.
C23_Witness ==
  /\ IsOverlapAnswer
  /\ Len(resp.overlappingPairs) >= 1
  /\ \E a, b \in DOMAIN store :
       /\ IntersectsWindow(a) /\ IntersectsWindow(b)
       /\ store[a].end = store[b].start
       /\ {a, b} \notin ReturnedPairs

\* C28: precedence (a.end <= b.start) is transitive over events whose end
\* is after their start, so a non-empty path of the precedence query has at
\* most two events: [source] when source = target, [source, target]
\* otherwise, never an event in between.
C28_PrecedencePathHasNoIntermediate ==
  IsNonEmptyPath =>
    LET ids == [i \in 1..Len(resp.shortestPath) |-> resp.shortestPath[i].event_id]
    IN /\ Len(ids) <= 2
       /\ resp.sourceEventId = resp.targetEventId => ids = <<resp.sourceEventId>>
       /\ resp.sourceEventId # resp.targetEventId =>
            ids = <<resp.sourceEventId, resp.targetEventId>>

\* A path from a source to a target with a stored event that lies between
\* the two in time and is not on the path.
C28_Witness ==
  /\ IsNonEmptyPath
  /\ Len(resp.shortestPath) = 2
  /\ \E m \in DOMAIN store :
       /\ store[resp.sourceEventId].end <= store[m].start
       /\ store[m].end <= store[resp.targetEventId].start

IsWindowGapsAnswer ==
  /\ resp.op = "temporalGaps"
  /\ resp.status = 200
  /\ resp.handler = "window"

\* The position of an event in the snapshot the handler read.
SnapshotIndex(e) == CHOOSE i \in 1..Len(resp.events) : resp.events[i] = e

\* Gap g comes before gap h in the order of the claim: longer first, then
\* the earlier start of the preceding event, then the snapshot order.
GapComesBefore(g, h) ==
  \/ g.durationMinutes > h.durationMinutes
  \/ /\ g.durationMinutes = h.durationMinutes
     /\ \/ store[g.precedingEvent].start < store[h.precedingEvent].start
        \/ /\ store[g.precedingEvent].start = store[h.precedingEvent].start
           /\ SnapshotIndex(g.precedingEvent) < SnapshotIndex(h.precedingEvent)

\* C26: the windowed gap query orders gaps of equal duration by the
\* earliest start of the preceding event, then by the order of the
\* snapshot; the largest gap is fixed by the snapshot: it is the one gap of
\* maximal duration whose preceding event starts earliest.
C26_EqualGapsKeepChronologicalOrder ==
  IsWindowGapsAnswer =>
    /\ \A i, j \in 1..Len(resp.gaps) :
         i < j => GapComesBefore(resp.gaps[i], resp.gaps[j])
    /\ (resp.largestGap = <<>>) = (resp.gaps = <<>>)
    /\ resp.gaps # <<>> =>
         /\ resp.largestGap[1] \in Range(resp.gaps)
         /\ \A g \in Range(resp.gaps) :
              g # resp.largestGap[1] => GapComesBefore(resp.largestGap[1], g)

\* Two gaps of the same duration in one answer.
C26_Witness ==
  /\ IsWindowGapsAnswer
  /\ Len(resp.gaps) >= 2
  /\ resp.gaps[1].durationMinutes = resp.gaps[2].durationMinutes
  /\ resp.largestGap = <<resp.gaps[1]>>

IsHierarchyPathAnswer == resp.op = "hierarchyPath" /\ resp.status = 200

HierarchyPathIds ==
  [i \in 1..Len(resp.shortestPath) |-> resp.shortestPath[i].event_id]

\* C25: the hierarchy path query searches the undirected parent/child graph.
\* A non-empty path starts at the source, ends at the target, joins
\* consecutive events by a parent/child link, and no hierarchy path between
\* the two is shorter; the path is empty exactly when the target is not
\* connected to the source through hierarchy links.
C25_HierarchyPathIsShortest ==
  IsHierarchyPathAnswer =>
    LET ids       == HierarchyPathIds
        connected == resp.targetEventId
                       \in WithinLinks(resp.sourceEventId, Cardinality(DOMAIN store))
    IN /\ (ids = <<>>) = ~connected
       /\ ids # <<>> =>
            /\ ids[1] = resp.sourceEventId
            /\ ids[Len(ids)] = resp.targetEventId
            /\ \A i \in 1..(Len(ids) - 1) : HierarchyLinked(ids[i], ids[i + 1])
            /\ Len(ids) - 1 = LinkDistance(resp.sourceEventId, resp.targetEventId)

\* A path from a child up to its parent and down to another child.
C25_Witness ==
  /\ IsHierarchyPathAnswer
  /\ Len(resp.shortestPath) = 3
  /\ store[HierarchyPathIds[1]].parentId = HierarchyPathIds[2]
  /\ store[HierarchyPathIds[3]].parentId = HierarchyPathIds[2]

\* The ancestors of an event of the store: its parent, that parent's
\* parent, and so on for at most k links.
RECURSIVE StoredAncestors(_, _)
StoredAncestors(e, k) ==
  IF k = 0 \/ e \notin DOMAIN store \/ store[e].parentId = NoEvent THEN {}
  ELSE {store[e].parentId} \cup StoredAncestors(store[e].parentId, k - 1)

\* The parent relation is a forest: every parent is a stored event and no
\* event is among its own ancestors.
ParentsFormForest ==
  \A e \in DOMAIN store :
    /\ store[e].parentId # NoEvent => store[e].parentId \in DOMAIN store
    /\ e \notin StoredAncestors(e, Cardinality(DOMAIN store))

\* A create that succeeded with a parent id naming no other stored event
\* stored a null parent.
CreateWithUnknownParentStoresNull ==
  ( /\ resp.op = "createEvent"
    /\ resp.status = 201
    /\ resp.data.parentId \notin (DOMAIN store \ {resp.eventId}) )
  => store[resp.eventId].parentId = NoEvent

\* An update of a stored event with a valid interval and a parent id
\* naming no stored event succeeded and stored a null parent.
UpdateWithUnknownParentStoresNull ==
  ( /\ resp.op = "updateEvent"
    /\ resp.eventId \in DOMAIN store
    /\ resp.data.endDate > resp.data.startDate
    /\ resp.data.parentId # NoEvent
    /\ resp.data.parentId \notin DOMAIN store )
  => /\ resp.status = 200
     /\ store[resp.eventId].parentId = NoEvent

\* C27: after any sequence of create, update and delete the parent relation
\* is a forest: no event is its own parent or ancestor and every non-null
\* parent is a stored event, because a create or an update with a parent id
\* that does not exist stores a null parent and deleting a parent nulls the
\* parent of its children.
C27_ParentRelationIsForest ==
  /\ ParentsFormForest
  /\ CreateWithUnknownParentStoresNull
  /\ UpdateWithUnknownParentStoresNull

IsTerminalJob(job) ==
  /\ job.status \in {"COMPLETED", "FAILED"}
  /\ job.endTime = "set"

\* C29: every job registered in the job table eventually reaches COMPLETED
\* or FAILED with endTime set, and its status never changes afterwards; no
\* job stays PROCESSING forever, the job of an ingest request that supplies
\* neither a file nor a file path included.
C29_EveryJobReachesTerminalStatus ==
  /\ \A j \in JobIds :
       (j \in DOMAIN jobs) ~> (j \in DOMAIN jobs /\ IsTerminalJob(jobs[j]))
  /\ [][\A j \in DOMAIN jobs :
          IsTerminalJob(jobs[j]) => jobs'[j].status = jobs[j].status]_vars

\* C30: when a job is observed with status COMPLETED, every line counted in
\* processedLines has been stored: the creation started for each such line
\* has finished successfully before the status changed, and
\* processedLines + errorLines = totalLines.
C30_CompletedJobHasStoredItsLines ==
  ( /\ resp.op = "ingestionStatus"
    /\ resp.status = 200
    /\ resp.job.status = "COMPLETED" )
  => LET started == {c \in creations : c.job = resp.jobId}
     IN /\ \A c \in started : c.state = "created"
        /\ resp.job.processedLines = Cardinality(started)
        /\ resp.job.processedLines + resp.job.errorLines = resp.job.totalLines

=============================================================================
